---- MODULE Spec2Model ----
(***************************************************************************)
(* Model of src/types.rs of chatgpt_rs: the streamed-response reassembler  *)
(* ChatMessage::from_response_chunks, the content model (ChatMessage::new, *)
(* ChatMessage::content, Display for ChatMessageContent) and the two       *)
(* flexible decoders (string_or_array, the untagged InboundChunkPayload).  *)
(*                                                                         *)
(* Text is a TLA+ string; push_str and write! are \o.  A Vec is a          *)
(* sequence, so the Rust position i is the TLA+ position i + 1.            *)
(***************************************************************************)
EXTENDS Integers, Sequences, FiniteSets, TLC

\* Longest chunk sequence handed to from_response_chunks.
MaxChunks == 4
\* Largest response_index a chunk carries.
MaxIndex == 1
\* Longest content list of a message.
MaxSegments == 3

\* enum Role
Role == {"System", "Assistant", "User", "Function"}

\* The roles and text fragments the chunk sequences are drawn from.
ChunkRoles == {"Assistant", "User"}
Deltas == {"a", "b"}
Indices == 0..MaxIndex

(***************************************************************************)
(* enum ResponseChunk                                                      *)
(***************************************************************************)
Content(delta, response_index) ==
    [kind |-> "Content", delta |-> delta, response_index |-> response_index]

BeginResponse(role, response_index) ==
    [kind |-> "BeginResponse", role |-> role, response_index |-> response_index]

CloseResponse(response_index) ==
    [kind |-> "CloseResponse", response_index |-> response_index]

Done == [kind |-> "Done"]

(***************************************************************************)
(* enum ChatMessageContent and struct ChatMessage                          *)
(***************************************************************************)
\* ChatMessageContent::text
Text(text) == [type |-> "text", text |-> text]

\* ChatMessageContent::image_url
ImageUrl(url) == [type |-> "image_url", image_url |-> [url |-> url]]

\* ChatMessage::new
ChatMessage_new(role, content) == [role |-> role, content |-> content]

VARIABLES
    chunks,     \* the chunks the for loop has taken from the input so far
    result,     \* let mut result: Vec<Self>
    responses,  \* let mut responses: Vec<(Role, String)>
    pc,         \* "loop" | "done" | "panicked"
    returned,   \* the Vec the call returned (meaningful when pc = "done")
    wire,       \* the JSON value handed to a deserializer
    msg,        \* the ChatMessage built or deserialized
    rendered,   \* what ChatMessage::content returned
    decoded,    \* the InboundChunkPayload deserialized
    wpc         \* "ready" | "message" | "rendered" | "decoded" |
                \* "message_error" | "payload_error"

reassemblerVars == <<chunks, result, responses, pc, returned>>
wireVars == <<wire, msg, rendered, decoded, wpc>>
vars == <<chunks, result, responses, pc, returned, wire, msg, rendered, decoded, wpc>>

(***************************************************************************)
(* The body of the for loop, one operator per match arm.  A loop state is  *)
(* [pc, result, responses].                                                *)
(***************************************************************************)

\* responses.get_mut(response_index) is Some
get_mut_is_some(v, response_index) == response_index < Len(v)

\* Mutant: the fragment goes to the most recent slot.
get_mut_slot_last(v, response_index) == Len(v)

\* the position get_mut(response_index) borrows
get_mut_slot(v, response_index) == response_index + 1

\* Mutant: the fragment replaces the accumulated text.
push_str_replace(response, delta) == delta

\* response.push_str(&delta)
push_str(response, delta) == response \o delta

\* Mutant: a fragment for a missing slot is dropped and the loop goes on.
ContentArmSkip(st, delta, response_index) ==
    IF get_mut_is_some(st.responses, response_index)
    THEN [st EXCEPT !.responses[get_mut_slot(st.responses, response_index)] =
                        <<@[1], push_str(@[2], delta)>>]
    ELSE st

\* ResponseChunk::Content { delta, response_index } => ...
ContentArm(st, delta, response_index) ==
    IF get_mut_is_some(st.responses, response_index)
    THEN [st EXCEPT !.responses[get_mut_slot(st.responses, response_index)] =
                        <<@[1], push_str(@[2], delta)>>]
    ELSE [st EXCEPT !.pc = "panicked"]   \* .expect("Invalid response chunk sequence!")

\* Mutant: the new slot is put in front of the others.
push_response_front(v, role) == <<<<role, "">>>> \o v

\* responses.push((role, String::with_capacity(16)))
push_response(v, role) == Append(v, <<role, "">>)

\* Mutant: no message is reserved in result.
BeginResponseArmNoReserve(st, role) ==
    [st EXCEPT !.responses = push_response(st.responses, role)]

\* ResponseChunk::BeginResponse { role, response_index: _ } => ...
BeginResponseArm(st, role) ==
    [st EXCEPT !.responses = push_response(st.responses, role),
               !.result = Append(st.result, [role |-> role, content |-> <<>>])]

\* Mutant: an event that closes drops the last slot.
OtherArmPop(st) ==
    [st EXCEPT !.responses = SubSeq(@, 1, Len(@) - 1),
               !.result = SubSeq(@, 1, Len(@) - 1)]

\* _ => {}
OtherArm(st) == st

MatchChunk(st, chunk) ==
    CASE chunk.kind = "Content" -> ContentArm(st, chunk.delta, chunk.response_index)
      [] chunk.kind = "BeginResponse" -> BeginResponseArm(st, chunk.role)
      [] OTHER -> OtherArm(st)

\* Mutant: the reserved messages of result are returned, content empty.
CollectReserved(v) ==
    [k \in 1..Len(v) |-> [role |-> v[k][1], content |-> <<>>]]

\* responses.into_iter().map(|(role, response)| ChatMessage::new(..)).collect()
CollectResponses(v) ==
    [k \in 1..Len(v) |-> ChatMessage_new(v[k][1], <<Text(v[k][2])>>)]

LoopState == [pc |-> pc, result |-> result, responses |-> responses]

EmptyLoopState == [pc |-> "loop", result |-> <<>>, responses |-> <<>>]

\* from_response_chunks as a function of its whole argument: the fold of the
\* match over the chunks, abandoned at the first panic.
RECURSIVE FoldChunks(_, _)
FoldChunks(st, cs) ==
    IF cs = <<>> \/ st.pc = "panicked"
    THEN st
    ELSE FoldChunks(MatchChunk(st, Head(cs)), Tail(cs))

(***************************************************************************)
(* JSON values as the deserializers see them.  An object's fields are a    *)
(* TLA+ record: the field is present when its name is in the DOMAIN.       *)
(***************************************************************************)
JNull == [j |-> "null"]
JNumber == [j |-> "number"]
JStr(s) == [j |-> "string", s |-> s]
JArr(items) == [j |-> "array", items |-> items]
JObj(fields) == [j |-> "object", fields |-> fields]
NoWire == [j |-> "none"]

Has(obj, name) == name \in DOMAIN obj.fields

Ok(value) == [ok |-> TRUE, value |-> value]
Err == [ok |-> FALSE]

\* #[serde(rename_all = "lowercase")] enum Role
Role_deserialize(json) ==
    IF json.j # "string" THEN Err
    ELSE CASE json.s = "system" -> Ok("System")
           [] json.s = "assistant" -> Ok("Assistant")
           [] json.s = "user" -> Ok("User")
           [] json.s = "function" -> Ok("Function")
           [] OTHER -> Err

\* String
String_deserialize(json) == IF json.j = "string" THEN Ok(json.s) ELSE Err

\* deserialize_maybe_null: Option::<String>, then unwrap_or(String::new())
deserialize_maybe_null(json) ==
    CASE json.j = "null" -> Ok("")
      [] json.j = "string" -> Ok(json.s)
      [] OTHER -> Err

\* struct ImageUrlContent { url: String }
ImageUrlContent_deserialize(json) ==
    IF json.j = "object" /\ Has(json, "url")
    THEN LET url == String_deserialize(json.fields.url)
         IN IF url.ok THEN Ok([url |-> url.value]) ELSE Err
    ELSE Err

\* #[serde(tag = "type", rename_all = "snake_case")] enum ChatMessageContent
ChatMessageContent_deserialize(json) ==
    IF json.j # "object" \/ ~Has(json, "type") THEN Err
    ELSE IF json.fields.type = JStr("text")
    THEN IF Has(json, "text")
         THEN LET text == deserialize_maybe_null(json.fields.text)
              IN IF text.ok THEN Ok([type |-> "text", text |-> text.value]) ELSE Err
         ELSE Err
    ELSE IF json.fields.type = JStr("image_url")
    THEN IF Has(json, "image_url")
         THEN LET image_url == ImageUrlContent_deserialize(json.fields.image_url)
              IN IF image_url.ok
                 THEN Ok([type |-> "image_url", image_url |-> image_url.value])
                 ELSE Err
         ELSE Err
    ELSE Err

\* Mutant: a bare string yields no segment.
visit_str_empty(s) == Ok(<<>>)

\* StringOrArray::visit_str
visit_str(s) == Ok(<<Text(s)>>)

\* StringOrArray::visit_seq: Vec<ChatMessageContent> from the sequence
visit_seq(items) ==
    LET each == [k \in 1..Len(items) |-> ChatMessageContent_deserialize(items[k])]
    IN IF \A k \in 1..Len(items) : each[k].ok
       THEN Ok([k \in 1..Len(items) |-> each[k].value])
       ELSE Err

\* deserializer.deserialize_any(StringOrArray)
string_or_array(json) ==
    CASE json.j = "string" -> visit_str(json.s)
      [] json.j = "array" -> visit_seq(json.items)
      [] OTHER -> Err

\* #[derive(Deserialize)] struct ChatMessage
ChatMessage_deserialize(json) ==
    IF json.j = "object" /\ Has(json, "role") /\ Has(json, "content")
    THEN LET role == Role_deserialize(json.fields.role)
             content == string_or_array(json.fields.content)
         IN IF role.ok /\ content.ok
            THEN Ok([role |-> role.value, content |-> content.value])
            ELSE Err
    ELSE Err

\* InboundChunkPayload::AnnounceRoles { role: Role }
AnnounceRoles_deserialize(json) ==
    IF json.j = "object" /\ Has(json, "role")
    THEN LET role == Role_deserialize(json.fields.role)
         IN IF role.ok THEN Ok([variant |-> "AnnounceRoles", role |-> role.value])
            ELSE Err
    ELSE Err

\* InboundChunkPayload::StreamContent { content: String }
StreamContent_deserialize(json) ==
    IF json.j = "object" /\ Has(json, "content")
    THEN LET content == String_deserialize(json.fields.content)
         IN IF content.ok
            THEN Ok([variant |-> "StreamContent", content |-> content.value])
            ELSE Err
    ELSE Err

\* InboundChunkPayload::Close {}
Close_deserialize(json) ==
    IF json.j = "object" THEN Ok([variant |-> "Close"]) ELSE Err

\* Mutant: the content variant is tried before the role variant.
InboundChunkPayload_content_first(json) ==
    IF StreamContent_deserialize(json).ok THEN StreamContent_deserialize(json)
    ELSE IF AnnounceRoles_deserialize(json).ok THEN AnnounceRoles_deserialize(json)
    ELSE Close_deserialize(json)

\* #[serde(untagged)] enum InboundChunkPayload: the first variant, in
\* declaration order, that deserializes.
InboundChunkPayload_deserialize(json) ==
    IF AnnounceRoles_deserialize(json).ok THEN AnnounceRoles_deserialize(json)
    ELSE IF StreamContent_deserialize(json).ok THEN StreamContent_deserialize(json)
    ELSE Close_deserialize(json)

\* impl fmt::Display for ChatMessageContent
to_string(elem) ==
    IF elem.type = "text" THEN elem.text ELSE elem.image_url.url

\* Mutant: the segments are joined with a space.
content_joined(m) ==
    LET fold[k \in 0..Len(m.content)] ==
            IF k = 0 THEN ""
            ELSE IF k = 1 THEN to_string(m.content[k])
            ELSE fold[k - 1] \o " " \o to_string(m.content[k])
    IN fold[Len(m.content)]

\* ChatMessage::content: fold(String::new(), |acc, elem| acc.push_str(..))
content(m) ==
    LET fold[k \in 0..Len(m.content)] ==
            IF k = 0 THEN ""
            ELSE fold[k - 1] \o to_string(m.content[k])
    IN fold[Len(m.content)]

(***************************************************************************)
(* The inputs the content model and the decoders are driven with.          *)
(***************************************************************************)
Texts == {"", "a", "b"}
Urls == {"http://x"}
Segments == {Text(t) : t \in Texts} \cup {ImageUrl(u) : u \in Urls}

SeqsUpTo(S, n) == UNION {[1..k -> S] : k \in 0..n}

\* The elements of a content list on the wire.
TextObj(text) == JObj([type |-> JStr("text"), text |-> text])
ElementJson ==
    {TextObj(JStr(t)) : t \in Texts}
        \cup {TextObj(JNull),
              JObj([type |-> JStr("text")]),
              JObj([type |-> JStr("image_url"),
                    image_url |-> JObj([url |-> JStr("http://x")])]),
              JObj([type |-> JStr("audio")])}

ContentJson ==
    {JStr(t) : t \in Texts} \cup {JNull}
        \cup {JArr(items) : items \in SeqsUpTo(ElementJson, MaxSegments)}

RoleJson == {JStr("assistant"), JStr("user"), JStr("tool")}

MessageJson ==
    {JObj([role |-> r, content |-> c]) : r \in RoleJson, c \in ContentJson}

\* The role and content fields of a delta payload: absent, or a value.
Absent == [j |-> "absent"]
PayloadRoleField == {Absent, JNull, JNumber, JStr("assistant"), JStr("user"), JStr("tool")}
PayloadContentField == {Absent, JNull, JNumber, JStr(""), JStr("a")}

PayloadObj(role, content_) ==
    IF role = Absent /\ content_ = Absent THEN JObj(<<>>)
    ELSE IF role = Absent THEN JObj([content |-> content_])
    ELSE IF content_ = Absent THEN JObj([role |-> role])
    ELSE JObj([role |-> role, content |-> content_])

PayloadJson == {PayloadObj(r, c) : r \in PayloadRoleField, c \in PayloadContentField}

(***************************************************************************)
(* The state machine.                                                      *)
(***************************************************************************)
Init ==
    /\ chunks = <<>>
    /\ result = <<>>
    /\ responses = <<>>
    /\ pc = "loop"
    /\ returned = <<>>
    /\ wire = NoWire
    /\ msg = ChatMessage_new("System", <<>>)
    /\ rendered = ""
    /\ decoded = [variant |-> "none"]
    /\ wpc = "ready"

\* The loop is running and the input holds another chunk.
HasNext == pc = "loop" /\ Len(chunks) < MaxChunks

\* One iteration of `for chunk in chunks`.
Iterate(chunk) ==
    /\ LET st == MatchChunk(LoopState, chunk)
       IN /\ pc' = st.pc
          /\ result' = st.result
          /\ responses' = st.responses
    /\ chunks' = Append(chunks, chunk)
    /\ UNCHANGED returned
    /\ UNCHANGED wireVars

\* The next chunk is a Content.
OnContent ==
    /\ HasNext
    /\ \E delta \in Deltas, i \in Indices : Iterate(Content(delta, i))

\* The next chunk is a BeginResponse.
OnBeginResponse ==
    /\ HasNext
    /\ \E role \in ChunkRoles, i \in Indices : Iterate(BeginResponse(role, i))

\* The next chunk is a CloseResponse.
OnCloseResponse ==
    /\ HasNext
    /\ \E i \in Indices : Iterate(CloseResponse(i))

\* The next chunk is Done.
OnDone ==
    /\ HasNext
    /\ Iterate(Done)

\* The input is exhausted: the loop ends and the call returns.
Return ==
    /\ pc = "loop"
    /\ returned' = CollectResponses(responses)
    /\ pc' = "done"
    /\ UNCHANGED <<chunks, result, responses>>
    /\ UNCHANGED wireVars

Next == OnContent \/ OnBeginResponse \/ OnCloseResponse \/ OnDone \/ Return

Spec == Init /\ [][Next]_vars

\* ChatMessage::new(role, content)
New ==
    /\ wpc = "ready"
    /\ \E role \in Role, segments \in SeqsUpTo(Segments, MaxSegments) :
          msg' = ChatMessage_new(role, segments)
    /\ wpc' = "message"
    /\ UNCHANGED <<wire, rendered, decoded>>
    /\ UNCHANGED reassemblerVars

\* A ChatMessage is deserialized from the wire.
DeserializeMessage ==
    /\ wpc = "ready"
    /\ \E json \in MessageJson :
          /\ wire' = json
          /\ LET r == ChatMessage_deserialize(json)
             IN IF r.ok
                THEN msg' = r.value /\ wpc' = "message"
                ELSE msg' = msg /\ wpc' = "message_error"
    /\ UNCHANGED <<rendered, decoded>>
    /\ UNCHANGED reassemblerVars

\* message.content()
CallContent ==
    /\ wpc = "message"
    /\ rendered' = content(msg)
    /\ wpc' = "rendered"
    /\ UNCHANGED <<wire, msg, decoded>>
    /\ UNCHANGED reassemblerVars

\* The delta payload of a chunk choice is deserialized from the wire.
DeserializePayload ==
    /\ wpc = "ready"
    /\ \E json \in PayloadJson :
          /\ wire' = json
          /\ LET r == InboundChunkPayload_deserialize(json)
             IN IF r.ok
                THEN decoded' = r.value /\ wpc' = "decoded"
                ELSE decoded' = decoded /\ wpc' = "payload_error"
    /\ UNCHANGED <<msg, rendered>>
    /\ UNCHANGED reassemblerVars

NextWire == New \/ DeserializeMessage \/ CallContent \/ DeserializePayload

SpecWire == Init /\ [][NextWire]_vars

(***************************************************************************)
(* What the claims say about a chunk sequence.                             *)
(***************************************************************************)
IsBegin(c) == c.kind = "BeginResponse"
IsContent(c) == c.kind = "Content"
IsOther(c) == c.kind \in {"CloseResponse", "Done"}

\* The BeginResponse events, in event order.
Begins(cs) == SelectSeq(cs, IsBegin)

\* The number of BeginResponse events before position p.
BeginsBefore(cs, p) == Cardinality({q \in 1..(p - 1) : IsBegin(cs[q])})

\* The deltas of the Content events whose response_index is i, concatenated in
\* event order.
RECURSIVE DeltasOf(_, _)
DeltasOf(cs, i) ==
    IF cs = <<>> THEN ""
    ELSE IF IsContent(Head(cs)) /\ Head(cs).response_index = i
         THEN Head(cs).delta \o DeltasOf(Tail(cs), i)
         ELSE DeltasOf(Tail(cs), i)

\* The response_index values the sequence carries.
IndicesSeen(cs) ==
    {cs[p].response_index : p \in {q \in 1..Len(cs) : cs[q].kind # "Done"}}

\* BeginResponse events carry 0, 1, 2, ... in that order, and every Content
\* follows the BeginResponse of its index.
WellOrdered(cs) ==
    /\ \A k \in 1..Len(Begins(cs)) : Begins(cs)[k].response_index = k - 1
    /\ \A p \in 1..Len(cs) :
          IsContent(cs[p]) =>
              \E q \in 1..(p - 1) :
                  IsBegin(cs[q]) /\ cs[q].response_index = cs[p].response_index

\* A Content whose index no earlier BeginResponse carried.
HasUnopenedDelta(cs) ==
    \E p \in 1..Len(cs) :
        /\ IsContent(cs[p])
        /\ ~ \E q \in 1..(p - 1) :
                IsBegin(cs[q]) /\ cs[q].response_index = cs[p].response_index

\* A Content whose index is not below the number of BeginResponse events
\* before it: no slot stands at that position.
HasOutOfRangeDelta(cs) ==
    \E p \in 1..Len(cs) :
        IsContent(cs[p]) /\ cs[p].response_index >= BeginsBefore(cs, p)

\* Every CloseResponse names an index that some BeginResponse carried.
ClosesNameOpened(cs) ==
    \A p \in 1..Len(cs) :
        cs[p].kind = "CloseResponse" =>
            \E q \in 1..Len(cs) :
                IsBegin(cs[q]) /\ cs[q].response_index = cs[p].response_index

\* The sequence without its CloseResponse and Done events.
StripOther(cs) == SelectSeq(cs, LAMBDA c : ~IsOther(c))

RolesOf(msgs) == [k \in 1..Len(msgs) |-> msgs[k].role]

(***************************************************************************)
(* C1  Interleaving correctness: on a well-ordered sequence the call does  *)
(* not fail, slot i accumulates exactly the deltas of index i in event     *)
(* order, and the message returned at position i holds that text.          *)
(***************************************************************************)
InterleavingCorrect ==
    WellOrdered(chunks) =>
        /\ pc # "panicked"
        /\ \A i \in 0..(Len(responses) - 1) :
              responses[i + 1][2] = DeltasOf(chunks, i)
        /\ pc = "done" =>
              /\ Len(returned) = Len(Begins(chunks))
              /\ \A i \in 0..(Len(returned) - 1) :
                    returned[i + 1].content = <<Text(DeltasOf(chunks, i))>>

InterleavedWitness ==
    /\ pc = "done"
    /\ WellOrdered(chunks)
    /\ Len(returned) = 2
    /\ returned[1].content[1].text # ""
    /\ returned[2].content[1].text # ""
    /\ \E p, q \in 1..Len(chunks) :
          /\ p < q
          /\ IsContent(chunks[p]) /\ chunks[p].response_index = 1
          /\ IsContent(chunks[q]) /\ chunks[q].response_index = 0

(***************************************************************************)
(* C2 as claimed: a successful call returns one message per distinct       *)
(* response_index of the sequence, each with the role of the BeginResponse *)
(* of that index and one Text segment with the text of that index.  It is  *)
(* stated for the sequences whose CloseResponse events all name an index   *)
(* that a BeginResponse carried.                                           *)
(***************************************************************************)
OutputPerDistinctIndex ==
    (pc = "done" /\ ClosesNameOpened(chunks)) =>
        /\ Len(returned) = Cardinality(IndicesSeen(chunks))
        /\ \A k \in 1..Len(returned) :
              \E p \in 1..Len(chunks) :
                  /\ IsBegin(chunks[p])
                  /\ returned[k] =
                        ChatMessage_new(chunks[p].role,
                            <<Text(DeltasOf(chunks, chunks[p].response_index))>>)

(***************************************************************************)
(* C2 amended: a successful call returns one message per BeginResponse     *)
(* event; the message at position k has the role of the k-th BeginResponse *)
(* and exactly one Text segment holding the deltas whose response_index is *)
(* k (empty when there are none).  That is one message per distinct        *)
(* response_index when the sequence is well ordered and every              *)
(* CloseResponse names an opened index.                                    *)
(***************************************************************************)
OutputPerBeginResponse ==
    pc = "done" =>
        /\ Len(returned) = Len(Begins(chunks))
        /\ \A k \in 1..Len(returned) :
              returned[k] =
                  ChatMessage_new(Begins(chunks)[k].role,
                                  <<Text(DeltasOf(chunks, k - 1))>>)
        /\ (/\ WellOrdered(chunks)
            /\ IndicesSeen(chunks) \subseteq 0..(Len(Begins(chunks)) - 1))
              => Len(returned) = Cardinality(IndicesSeen(chunks))

OutputWitness ==
    /\ pc = "done"
    /\ Len(returned) = 2
    /\ returned[1].content = <<Text("")>>
    /\ returned[2].content[1].text # ""
    /\ returned[1].role # returned[2].role

(***************************************************************************)
(* C3 as claimed: a Content whose response_index no earlier BeginResponse  *)
(* carried makes the call fail.                                            *)
(***************************************************************************)
UnopenedIndexFails == HasUnopenedDelta(chunks) => pc = "panicked"

(***************************************************************************)
(* C3 amended: the call fails exactly when a Content carries a             *)
(* response_index that is not below the number of BeginResponse events     *)
(* before it; the failure ends the call at that chunk and nothing is       *)
(* returned, whatever slots were opened before.                            *)
(***************************************************************************)
OutOfRangeIndexFails ==
    /\ pc = "panicked" <=> HasOutOfRangeDelta(chunks)
    /\ pc = "panicked" =>
          /\ returned = <<>>
          /\ ~ ENABLED Next
          /\ IsContent(chunks[Len(chunks)])
          /\ chunks[Len(chunks)].response_index >= Len(responses)

FailureWitness ==
    /\ pc = "panicked"
    /\ Len(responses) >= 1
    /\ responses[1][2] # ""

(***************************************************************************)
(* C4 as claimed: the returned messages stand in the order of their        *)
(* BeginResponse events and that order is ascending in the response_index  *)
(* those events carried (read here as: never descending).                  *)
(***************************************************************************)
AscendingIndexOrder ==
    pc = "done" =>
        /\ RolesOf(returned) = RolesOf(Begins(chunks))
        /\ \A j, k \in 1..Len(Begins(chunks)) :
              j < k => Begins(chunks)[j].response_index
                          <= Begins(chunks)[k].response_index

(***************************************************************************)
(* C4 amended: the returned messages stand in the order of the             *)
(* BeginResponse events, whatever indices those carried and wherever the   *)
(* Content, CloseResponse and Done events stand: the sequence without them *)
(* returns messages of the same roles in the same order.                   *)
(***************************************************************************)
OutputInBeginOrder ==
    pc = "done" =>
        /\ RolesOf(returned) = RolesOf(Begins(chunks))
        /\ RolesOf(returned) =
              RolesOf(CollectResponses(
                  FoldChunks(EmptyLoopState, Begins(chunks)).responses))

OrderWitness ==
    /\ pc = "done"
    /\ Len(returned) = 2
    /\ returned[1].role # returned[2].role
    /\ \E p, q, r \in 1..Len(chunks) :
          /\ p < q /\ q < r
          /\ IsBegin(chunks[p]) /\ IsContent(chunks[q]) /\ IsBegin(chunks[r])

\* The lists, the failure and the returned messages are those of the sequence
\* with every CloseResponse and Done deleted.
SameAsWithoutOther ==
    LET st == FoldChunks(EmptyLoopState, StripOther(chunks))
    IN /\ responses = st.responses
       /\ result = st.result
       /\ pc = "panicked" <=> st.pc = "panicked"
       /\ pc = "done" => returned = CollectResponses(st.responses)

\* A step that takes a CloseResponse or a Done changes neither list and does
\* not fail.
OtherStepIgnored ==
    (chunks' # chunks /\ IsOther(chunks'[Len(chunks')])) =>
        /\ responses' = responses
        /\ result' = result
        /\ pc' = "loop"

(***************************************************************************)
(* C5  CloseResponse and Done are ignorable: taking one, whatever index it *)
(* names, changes neither list and never fails, and the loop state, the    *)
(* failure and the returned messages are always those of the sequence with *)
(* every CloseResponse and Done deleted, so a Content after the            *)
(* CloseResponse of its index or after Done is processed as usual.         *)
(***************************************************************************)
CloseAndDoneIgnorable == []SameAsWithoutOther /\ [][OtherStepIgnored]_vars

IgnorableWitness ==
    /\ pc = "done"
    /\ \E p, q \in 1..Len(chunks) :
          /\ p < q
          /\ chunks[p] = CloseResponse(0)
          /\ IsContent(chunks[q]) /\ chunks[q].response_index = 0
    /\ \E p \in 1..Len(chunks) : chunks[p] = Done /\ p < Len(chunks)
    /\ returned[1].content[1].text # ""

(***************************************************************************)
(* C9 as claimed: result and responses grow in lockstep and the position   *)
(* of each slot is the response_index its BeginResponse carried.           *)
(***************************************************************************)
LockstepAtCarriedIndex ==
    /\ Len(result) = Len(responses)
    /\ Len(result) = Len(Begins(chunks))
    /\ \A k \in 1..Len(result) :
          /\ result[k].role = responses[k][1]
          /\ result[k].content = <<>>
          /\ Begins(chunks)[k].response_index = k - 1

(***************************************************************************)
(* C9 amended: result and responses have the same length, the number of    *)
(* BeginResponse events processed; position k of both holds the role of    *)
(* the k-th BeginResponse, whatever response_index it carried; every       *)
(* message of result has empty content.                                    *)
(***************************************************************************)
Lockstep ==
    /\ Len(result) = Len(responses)
    /\ Len(result) = Len(Begins(chunks))
    /\ \A k \in 1..Len(result) :
          /\ result[k].role = responses[k][1]
          /\ result[k].role = Begins(chunks)[k].role
          /\ result[k].content = <<>>

LockstepWitness ==
    /\ pc = "loop"
    /\ Len(result) = 2
    /\ result[1].role # result[2].role
    /\ responses[2][2] # ""
    /\ Begins(chunks)[1].response_index = 1

\* What one step may do to responses.
AppendOnlyStep ==
    /\ Len(responses') >= Len(responses)
    /\ \A k \in 1..Len(responses) :
          /\ responses'[k][1] = responses[k][1]
          /\ \E d \in Deltas \cup {""} : responses'[k][2] = responses[k][2] \o d
    /\ Len(responses') > Len(responses) =>
          /\ chunks' = Append(chunks, chunks'[Len(chunks')])
          /\ IsBegin(chunks'[Len(chunks')])
          /\ responses' =
                Append(responses, <<chunks'[Len(chunks')].role, "">>)
    /\ \A k \in 1..Len(responses) :
          responses'[k] # responses[k] =>
              /\ chunks' = Append(chunks, chunks'[Len(chunks')])
              /\ chunks'[Len(chunks')] =
                    Content(chunks'[Len(chunks')].delta, k - 1)
              /\ responses'[k][2] =
                    responses[k][2] \o chunks'[Len(chunks')].delta
    /\ (/\ chunks' # chunks
        /\ IsContent(chunks'[Len(chunks')])
        /\ pc' = "loop")
          => responses'[chunks'[Len(chunks')].response_index + 1][2] =
                responses[chunks'[Len(chunks')].response_index + 1][2]
                    \o chunks'[Len(chunks')].delta

(***************************************************************************)
(* C10  Append-only slot arena: a step never removes or reorders slots or  *)
(* changes a slot's role; only a BeginResponse adds a slot, one (role, "") *)
(* at the end; a slot's text only grows at its end, and only a Content     *)
(* for index i changes a text, that of slot i.                             *)
(***************************************************************************)
AppendOnly == [][AppendOnlyStep]_vars

AppendOnlyWitness ==
    /\ Len(responses) = 2
    /\ Len(responses[1][2]) = 2
    /\ responses[2][2] = ""

(***************************************************************************)
(* What the claims say about a message and a payload.                      *)
(***************************************************************************)
\* A Text segment renders as its text, an image segment as its URL.
RenderOf(segment) ==
    CASE segment.type = "text" -> segment.text
      [] segment.type = "image_url" -> segment.image_url.url

\* The renders of the segments one after the other, nothing between them.
RECURSIVE ConcatRenders(_)
ConcatRenders(segments) ==
    IF segments = <<>> THEN ""
    ELSE RenderOf(Head(segments)) \o ConcatRenders(Tail(segments))

\* The wire holds a message whose content is the bare string s.
WireIsScalar(s) ==
    /\ wire.j = "object" /\ Has(wire, "content")
    /\ wire.fields.content = JStr(s)

\* The wire holds a message whose content is the list of one text segment s.
WireIsOneTextList(s) ==
    /\ wire.j = "object" /\ Has(wire, "content")
    /\ wire.fields.content = JArr(<<TextObj(JStr(s))>>)

\* The role field is present and names a role.
HasValidRole(json) == Has(json, "role") /\ Role_deserialize(json.fields.role).ok

\* The content field is present and holds a string.
HasStringContent(json) == Has(json, "content") /\ json.fields.content.j = "string"

(***************************************************************************)
(* C6  Display concatenation: content() is the renders of the segments     *)
(* concatenated in segment order with nothing between them; the empty      *)
(* segment list renders as the empty string.                               *)
(***************************************************************************)
DisplayConcatenation ==
    wpc = "rendered" =>
        /\ rendered = ConcatRenders(msg.content)
        /\ msg.content = <<>> => rendered = ""
        /\ Len(rendered) =
              LET n[k \in 0..Len(msg.content)] ==
                      IF k = 0 THEN 0 ELSE n[k - 1] + Len(RenderOf(msg.content[k]))
              IN n[Len(msg.content)]

DisplayWitness ==
    /\ wpc = "rendered"
    /\ msg.content = <<Text("a"), ImageUrl("http://x"), Text("b")>>
    /\ rendered = "ahttp://xb"

(***************************************************************************)
(* C7  Scalar/list equivalence: content arriving as the bare string s and  *)
(* content arriving as the one-element list of the text segment s are both *)
(* stored as [Text{text: s}], so the two messages are equal.               *)
(***************************************************************************)
ScalarListEquivalence ==
    \A s \in Texts :
        /\ (wpc \in {"message", "rendered"} /\ WireIsScalar(s)) =>
              /\ msg.content = <<Text(s)>>
              /\ ChatMessage_deserialize(
                     JObj([role |-> wire.fields.role,
                           content |-> JArr(<<TextObj(JStr(s))>>)])) = Ok(msg)
        /\ (wpc \in {"message", "rendered"} /\ WireIsOneTextList(s)) =>
              /\ msg.content = <<Text(s)>>
              /\ ChatMessage_deserialize(
                     JObj([role |-> wire.fields.role,
                           content |-> JStr(s)])) = Ok(msg)
        /\ (wpc = "message_error" /\ (WireIsScalar(s) \/ WireIsOneTextList(s))) =>
              ~Role_deserialize(wire.fields.role).ok

ScalarWitness ==
    /\ wpc = "message"
    /\ WireIsScalar("a")
    /\ msg = ChatMessage_new("Assistant", <<Text("a")>>)

(***************************************************************************)
(* C8 as claimed: a delta payload is decoded by which field is present:    *)
(* a role field gives AnnounceRoles whatever else is present, a content    *)
(* field without a role field gives StreamContent, and only a payload with *)
(* neither field gives Close, whatever the types of the values.            *)
(***************************************************************************)
DecodedByPresence ==
    wpc = "decoded" =>
        /\ Has(wire, "role") => decoded.variant = "AnnounceRoles"
        /\ (Has(wire, "content") /\ ~Has(wire, "role")) =>
              decoded.variant = "StreamContent"
        /\ decoded.variant = "Close" =>
              (~Has(wire, "role") /\ ~Has(wire, "content"))

(***************************************************************************)
(* C8 amended: an object payload decodes to the first shape, in the order  *)
(* role, content, close, whose field is present with a value of its type:  *)
(* AnnounceRoles when the role field names a role, even with a content     *)
(* field present; otherwise StreamContent when the content field holds a   *)
(* string; otherwise Close, which also takes a payload that carries a role *)
(* or content field of another type.  No payload decodes to two shapes and *)
(* none fails.                                                             *)
(***************************************************************************)
DecodedByFirstMatch ==
    /\ wpc # "payload_error"
    /\ wpc = "decoded" =>
          /\ decoded.variant \in {"AnnounceRoles", "StreamContent", "Close"}
          /\ decoded.variant = "AnnounceRoles" <=> HasValidRole(wire)
          /\ decoded.variant = "AnnounceRoles" =>
                decoded = [variant |-> "AnnounceRoles",
                           role |-> Role_deserialize(wire.fields.role).value]
          /\ decoded.variant = "StreamContent" <=>
                (~HasValidRole(wire) /\ HasStringContent(wire))
          /\ decoded.variant = "StreamContent" =>
                decoded = [variant |-> "StreamContent",
                           content |-> wire.fields.content.s]
          /\ decoded.variant = "Close" <=>
                (~HasValidRole(wire) /\ ~HasStringContent(wire))

DecodeWitness ==
    /\ wpc = "decoded"
    /\ wire = JObj([role |-> JStr("assistant"), content |-> JStr("a")])
    /\ decoded = [variant |-> "AnnounceRoles", role |-> "Assistant"]

====
